---- MODULE Spec2Model ----
(***************************************************************************)
(* The posts application of Django-Backend-basicauth: the request handlers *)
(* of posts/views.py, routed by posts/urls.py, acting on the table of Post *)
(* records.                                                                *)
(*                                                                         *)
(* One step of the model is one request: the framework's dispatch (the     *)
(* view's permission_classes, then the handler) and everything the handler *)
(* does to the table.  The request served and the response returned are    *)
(* kept in req and resp.  SpecConc splits PUT into its two table accesses  *)
(* (the lookup of line 113 and the save of line 119) so that other         *)
(* requests can run between them.                                          *)
(*                                                                         *)
(* posts/serializers.py, posts/permissions.py, posts/models.py and         *)
(* users/serializers.py are used by the views and are modelled from their  *)
(* description: PostSerializer validates title, content and author and     *)
(* writes them; AuthorOrReadOnly is an object-level rule.  The created     *)
(* timestamp of a Post is read by no handler and is left out.              *)
(***************************************************************************)
EXTENDS Integers, Sequences, FiniteSets, TLC

VARIABLES
    posts,      \* the Post table: id -> [title, content, author]
    nextId,     \* the next value of the table's auto-increment primary key
    req,        \* the request served by the last step
    resp,       \* the response returned by the last step
    inflight    \* a PUT between its lookup and its save (SpecConc only)

vars == <<posts, nextId, req, resp, inflight>>

----------------------------------------------------------------------------
(* Bounds and input sets *)

MaxPosts == 2

Missing == "<missing>"
AnonymousUser == "<anonymous>"
Users == {"alice", "bob"}
Callers == Users \cup {AnonymousUser}
PostIds == 1..MaxPosts

NoData == [title |-> Missing, content |-> Missing, author |-> Missing]

Payload(t, c, a) == [title |-> t, content |-> c, author |-> a]

\* request.data: complete payloads naming either user as the author, and
\* payloads with one field or every field missing
Payloads == {Payload("A", "B", "alice"), Payload("A2", "B2", "alice"),
             Payload("A", "B", "bob"),
             Payload(Missing, "B2", "alice"), Payload("A2", Missing, "bob"),
             Payload("A2", "B2", Missing), NoData}

\* ?username=: absent, empty, a user's name, a name differing in case only,
\* a name of nobody
QueryParams == {Missing, "", "alice", "bob", "Alice"}

\* the inputs of SpecConc
ConcCallers == {"alice"}
ConcPayloads == {Payload("A2", "B2", "alice"), Payload(Missing, "B2", "alice")}

----------------------------------------------------------------------------
(* Status codes (rest_framework.status) *)

HTTP_200_OK == 200
HTTP_201_CREATED == 201
HTTP_204_NO_CONTENT == 204
HTTP_400_BAD_REQUEST == 400
HTTP_401_UNAUTHORIZED == 401
HTTP_403_FORBIDDEN == 403
HTTP_404_NOT_FOUND == 404

SAFE_METHODS == {"GET", "HEAD", "OPTIONS"}

----------------------------------------------------------------------------
(* Responses *)

NoRep == [id |-> 0, title |-> "", content |-> "", author |-> ""]

Response(st, p, l, e, m) ==
    [status |-> st, post |-> p, list |-> l, errors |-> e, message |-> m]

NoResponse == Response(0, NoRep, <<>>, {}, "")

Request(method, path, user, id, data, username) ==
    [method |-> method, path |-> path, user |-> user, id |-> id,
     data |-> data, username |-> username]

NoRequest == Request("", "", AnonymousUser, 0, NoData, Missing)

NoRow == [title |-> "", content |-> "", author |-> ""]

NoPut == [active |-> FALSE, user |-> AnonymousUser, id |-> 0,
          data |-> NoData, instance |-> NoRow]

----------------------------------------------------------------------------
(* PostSerializer *)

\* PostSerializer(post).data
Rep(id, p) ==
    [id |-> id, title |-> p.title, content |-> p.content, author |-> p.author]

MaxKey(store) ==
    IF DOMAIN store = {} THEN 0
    ELSE CHOOSE m \in DOMAIN store : \A k \in DOMAIN store : k <= m

RECURSIVE serialize_upto(_, _, _)
serialize_upto(store, ids, n) ==
    IF n = 0 THEN <<>>
    ELSE LET rest == serialize_upto(store, ids, n - 1)
         IN  IF n \in ids THEN Append(rest, Rep(n, store[n])) ELSE rest

\* PostSerializer(queryset, many=True).data, the rows ids of the table by id
serialize_many(store, ids) == serialize_upto(store, ids, MaxKey(store))

\* serializer.errors: the fields that fail validation
errors(data) ==
    {f \in {"title", "content", "author"} : data[f] = Missing}

\* serializer.is_valid()
is_valid(data) == errors(data) = {}

\* serializer.save() of PostSerializer(data=...): the row inserted
serializer_create(data) ==
    [title |-> data.title, content |-> data.content, author |-> data.author]

\* serializer.save() of PostSerializer(post, data=...): the row written back;
\* the author of a post is not reassigned by an update
serializer_update(instance, data) ==
    [title |-> data.title, content |-> data.content, author |-> instance.author]

\* Model.save() of a row with a primary key: UPDATE, and INSERT when no row
\* has the key
save(store, id, row) ==
    [i \in DOMAIN store \cup {id} |-> IF i = id THEN row ELSE store[i]]

\* Model.delete()
remove(store, id) == [i \in DOMAIN store \ {id} |-> store[i]]

----------------------------------------------------------------------------
(* Permission classes *)

AllowAny(method, user) == TRUE

IsAuthenticated(method, user) == user # AnonymousUser

\* a slip: the create view left open to every caller
IsAuthenticatedOrReadOnly_open(method, user) == TRUE

IsAuthenticatedOrReadOnly(method, user) ==
    method \in SAFE_METHODS \/ user # AnonymousUser

\* AuthorOrReadOnly: the view-level check is BasePermission's
AuthorOrReadOnly_has_permission(method, user) == TRUE

\* AuthorOrReadOnly: the object-level rule.  It runs only from
\* check_object_permissions, which no handler of views.py calls.
AuthorOrReadOnly_has_object_permission(method, user, post) ==
    method \in SAFE_METHODS \/ post.author = user

\* APIView.permission_denied
permission_denied(user) ==
    Response(IF user = AnonymousUser THEN HTTP_401_UNAUTHORIZED
             ELSE HTTP_403_FORBIDDEN,
             NoRep, <<>>, {}, "denied")

\* get_object_or_404's Http404
not_found == Response(HTTP_404_NOT_FOUND, NoRep, <<>>, {}, "Not found.")

Result(store, next, r) == [store |-> store, next |-> next, resp |-> r]

----------------------------------------------------------------------------
(* Handlers: each gives the table, the key counter and the response *)

\* homepage
homepage(store, next, user) ==
    IF ~AllowAny("GET", user) THEN Result(store, next, permission_denied(user))
    ELSE Result(store, next,
                Response(HTTP_200_OK, NoRep, <<>>, {}, "Hello, World!"))

\* PostListCreateView.get
PostListCreateView_get(store, next, user) ==
    IF ~IsAuthenticatedOrReadOnly("GET", user)
    THEN Result(store, next, permission_denied(user))
    ELSE Result(store, next,
                Response(HTTP_200_OK, NoRep,
                         serialize_many(store, DOMAIN store), {}, ""))

\* PostListCreateView.post
PostListCreateView_post(store, next, user, data) ==
    IF ~IsAuthenticatedOrReadOnly("POST", user)
    THEN Result(store, next, permission_denied(user))
    ELSE IF is_valid(data)
    THEN LET row == serializer_create(data)
         IN  Result(save(store, next, row), next + 1,
                    Response(HTTP_201_CREATED, Rep(next, row), <<>>, {}, ""))
    ELSE Result(store, next,
                Response(HTTP_400_BAD_REQUEST, NoRep, <<>>, errors(data), ""))

\* a slip: the first post of the table instead of the one with the key
get_first(store, next, user, id) ==
    IF DOMAIN store = {}
    THEN Result(store, next, not_found)
    ELSE LET first == CHOOSE m \in DOMAIN store : \A k \in DOMAIN store : m <= k
         IN  Result(store, next,
                    Response(HTTP_200_OK, Rep(first, store[first]), <<>>, {}, ""))

\* PostRetriveUpdateDeleteView.get
PostRetriveUpdateDeleteView_get(store, next, user, id) ==
    IF ~AuthorOrReadOnly_has_permission("GET", user)
    THEN Result(store, next, permission_denied(user))
    ELSE IF id \notin DOMAIN store
    THEN Result(store, next, not_found)
    ELSE Result(store, next,
                Response(HTTP_200_OK, Rep(id, store[id]), <<>>, {}, ""))

\* a slip: the fields that are present written before validation
put_save_partial(store, next, id, instance, data) ==
    LET row == [title |-> IF data.title = Missing THEN instance.title
                          ELSE data.title,
                content |-> IF data.content = Missing THEN instance.content
                            ELSE data.content,
                author |-> instance.author]
    IN  IF is_valid(data)
        THEN Result(save(store, id, row), next,
                    Response(HTTP_200_OK, Rep(id, row), <<>>, {}, ""))
        ELSE Result(save(store, id, row), next,
                    Response(HTTP_400_BAD_REQUEST, NoRep, <<>>, errors(data), ""))

\* PostRetriveUpdateDeleteView.put, from the serializer on: validate, save
put_save(store, next, id, instance, data) ==
    IF is_valid(data)
    THEN LET row == serializer_update(instance, data)
         IN  Result(save(store, id, row), next,
                    Response(HTTP_200_OK, Rep(id, row), <<>>, {}, ""))
    ELSE Result(store, next,
                Response(HTTP_400_BAD_REQUEST, NoRep, <<>>, errors(data), ""))

\* a slip: every validated field, the author too, written over the row
put_overwrite(store, next, user, id, data) ==
    IF id \notin DOMAIN store
    THEN Result(store, next, Response(HTTP_404_NOT_FOUND, NoRep, <<>>, {}, ""))
    ELSE IF is_valid(data)
    THEN Result(save(store, id, serializer_create(data)), next,
                Response(HTTP_200_OK, Rep(id, serializer_create(data)),
                         <<>>, {}, ""))
    ELSE Result(store, next,
                Response(HTTP_400_BAD_REQUEST, NoRep, <<>>, errors(data), ""))

\* PostRetriveUpdateDeleteView.put
PostRetriveUpdateDeleteView_put(store, next, user, id, data) ==
    IF ~AuthorOrReadOnly_has_permission("PUT", user)
    THEN Result(store, next, permission_denied(user))
    ELSE IF id \notin DOMAIN store
    THEN Result(store, next, Response(HTTP_404_NOT_FOUND, NoRep, <<>>, {}, ""))
    ELSE put_save(store, next, id, store[id], data)

\* a slip: Post.objects.filter(pk=post_id).delete(), which finds nothing
\* missing
delete_filter(store, next, user, id) ==
    Result(remove(store, id), next,
           Response(HTTP_204_NO_CONTENT, NoRep, <<>>, {},
                    "Post deleted successfully."))

\* a slip: the confirmation returned with post.delete() left out
delete_unsaved(store, next, user, id) ==
    IF id \notin DOMAIN store
    THEN Result(store, next, not_found)
    ELSE Result(store, next,
                Response(HTTP_204_NO_CONTENT, NoRep, <<>>, {},
                         "Post deleted successfully."))

\* PostRetriveUpdateDeleteView.delete
PostRetriveUpdateDeleteView_delete(store, next, user, id) ==
    IF ~AuthorOrReadOnly_has_permission("DELETE", user)
    THEN Result(store, next, permission_denied(user))
    ELSE IF id \notin DOMAIN store
    THEN Result(store, next, not_found)
    ELSE Result(remove(store, id), next,
                Response(HTTP_204_NO_CONTENT, NoRep, <<>>, {},
                         "Post deleted successfully."))

\* CurrentUserPostsSerializer(instance=user).data: the user's posts
current_user_posts(store, user) ==
    serialize_many(store, {i \in DOMAIN store : store[i].author = user})

\* get_posts_for_current_user
get_posts_for_current_user(store, next, user) ==
    IF ~IsAuthenticated("GET", user)
    THEN Result(store, next, permission_denied(user))
    ELSE Result(store, next,
                Response(HTTP_200_OK, NoRep, current_user_posts(store, user),
                         {}, user))

\* a slip: `if username is not None:`, an empty parameter filtering
author_queryset_not_none(store, username) ==
    IF username # Missing
    THEN {i \in DOMAIN store : store[i].author = username}
    ELSE DOMAIN store

\* list_posts_for_author: the queryset.  A missing parameter is None and an
\* empty one is "", and both are false in `if username:`
author_queryset(store, username) ==
    IF username # Missing /\ username # ""
    THEN {i \in DOMAIN store : store[i].author = username}
    ELSE DOMAIN store

\* list_posts_for_author
list_posts_for_author(store, next, user, username) ==
    IF ~IsAuthenticated("GET", user)
    THEN Result(store, next, permission_denied(user))
    ELSE Result(store, next,
                Response(HTTP_200_OK, NoRep,
                         serialize_many(store, author_queryset(store, username)),
                         {}, ""))

----------------------------------------------------------------------------
(* The state machine *)

Init ==
    /\ posts = [i \in {} |-> NoRow]
    /\ nextId = 1
    /\ req = NoRequest
    /\ resp = NoResponse
    /\ inflight = NoPut

Serve(r, q) ==
    /\ posts' = r.store
    /\ nextId' = r.next
    /\ resp' = r.resp
    /\ req' = q
    /\ UNCHANGED inflight

GetHomepage(user) ==
    Serve(homepage(posts, nextId, user),
          Request("GET", "homepage", user, 0, NoData, Missing))

GetPosts(user) ==
    Serve(PostListCreateView_get(posts, nextId, user),
          Request("GET", "posts", user, 0, NoData, Missing))

PostPosts(user, data) ==
    /\ nextId <= MaxPosts
    /\ Serve(PostListCreateView_post(posts, nextId, user, data),
             Request("POST", "posts", user, 0, data, Missing))

GetPost(user, id) ==
    Serve(PostRetriveUpdateDeleteView_get(posts, nextId, user, id),
          Request("GET", "posts/<id>", user, id, NoData, Missing))

PutPost(user, id, data) ==
    Serve(PostRetriveUpdateDeleteView_put(posts, nextId, user, id, data),
          Request("PUT", "posts/<id>", user, id, data, Missing))

DeletePost(user, id) ==
    Serve(PostRetriveUpdateDeleteView_delete(posts, nextId, user, id),
          Request("DELETE", "posts/<id>", user, id, NoData, Missing))

GetCurrentUser(user) ==
    Serve(get_posts_for_current_user(posts, nextId, user),
          Request("GET", "current_user/", user, 0, NoData, Missing))

GetListPost(user, username) ==
    Serve(list_posts_for_author(posts, nextId, user, username),
          Request("GET", "list_post/", user, 0, NoData, username))

\* PUT up to its lookup (lines 112-115): a found post is held as the
\* serializer's instance until the save
PutLookup(user, id, data) ==
    /\ ~inflight.active
    /\ AuthorOrReadOnly_has_permission("PUT", user)
    /\ id \in DOMAIN posts
    /\ inflight' = [active |-> TRUE, user |-> user, id |-> id, data |-> data,
                    instance |-> posts[id]]
    /\ UNCHANGED <<posts, nextId, req, resp>>

\* PUT from the serializer on (lines 117-121)
PutSave ==
    /\ inflight.active
    /\ LET r == put_save(posts, nextId, inflight.id, inflight.instance,
                         inflight.data)
       IN  /\ posts' = r.store
           /\ nextId' = r.next
           /\ resp' = r.resp
    /\ req' = Request("PUT", "posts/<id>", inflight.user, inflight.id,
                      inflight.data, Missing)
    /\ inflight' = NoPut

Next ==
    \/ \E user \in Callers : GetHomepage(user)
    \/ \E user \in Callers : GetPosts(user)
    \/ \E user \in Callers, data \in Payloads : PostPosts(user, data)
    \/ \E user \in Callers, id \in PostIds : GetPost(user, id)
    \/ \E user \in Callers, id \in PostIds, data \in Payloads :
          PutPost(user, id, data)
    \/ \E user \in Callers, id \in PostIds : DeletePost(user, id)
    \/ \E user \in Callers : GetCurrentUser(user)
    \/ \E user \in Callers, username \in QueryParams :
          GetListPost(user, username)

Spec == Init /\ [][Next]_vars

\* Requests served by two workers: one may be inside a PUT while the other
\* serves whole requests
NextConc ==
    \/ \E user \in ConcCallers, data \in ConcPayloads : PostPosts(user, data)
    \/ \E user \in ConcCallers, id \in PostIds : GetPost(user, id)
    \/ \E user \in ConcCallers, id \in PostIds, data \in ConcPayloads :
          PutPost(user, id, data)
    \/ \E user \in ConcCallers, id \in PostIds, data \in ConcPayloads :
          PutLookup(user, id, data)
    \/ PutSave
    \/ \E user \in ConcCallers, id \in PostIds : DeletePost(user, id)

SpecConc == Init /\ [][NextConc]_vars

----------------------------------------------------------------------------
(* Properties *)

IsItem(q, methods) == q.path = "posts/<id>" /\ q.method \in methods

Incomplete(d) ==
    d.title = Missing \/ d.content = Missing \/ d.author = Missing

Unchanged == posts' = posts /\ nextId' = nextId

Elems(l) == {l[k] : k \in 1..Len(l)}

\* C1: a PUT or DELETE on an existing post by an authenticated caller who is
\* not its author returns 403 and changes nothing; by the author, DELETE
\* returns 204 and a PUT with valid data returns 200.
C1_AuthorOnlyWrite ==
    [][ (IsItem(req', {"PUT", "DELETE"}) /\ req'.user # AnonymousUser
            /\ req'.id \in DOMAIN posts)
        => IF req'.user # posts[req'.id].author
           THEN resp'.status = 403 /\ Unchanged
           ELSE /\ req'.method = "DELETE" => resp'.status = 204
                /\ (req'.method = "PUT" /\ ~Incomplete(req'.data))
                       => resp'.status = 200 ]_vars

\* C2: a valid POST /posts by an authenticated caller returns 201, adds
\* exactly one post, returns the submitted title and content, and the new
\* post's author is the caller whatever author the payload names.
C2_CreateAuthorIsCaller ==
    [][ (req'.path = "posts" /\ req'.method = "POST"
            /\ req'.user # AnonymousUser /\ ~Incomplete(req'.data))
        => /\ resp'.status = 201
           /\ \E id \in DOMAIN posts' \ DOMAIN posts :
                 /\ DOMAIN posts' = DOMAIN posts \cup {id}
                 /\ \A i \in DOMAIN posts : posts'[i] = posts[i]
                 /\ resp'.post.id = id
                 /\ resp'.post.title = req'.data.title
                 /\ resp'.post.content = req'.data.content
                 /\ posts'[id].title = req'.data.title
                 /\ posts'[id].content = req'.data.content
                 /\ posts'[id].author = req'.user ]_vars

\* C3: GET, PUT and DELETE on an identifier of no existing post return 404
\* and leave the table as it was.
C3_NotFound ==
    [][ (IsItem(req', {"GET", "PUT", "DELETE"}) /\ req'.id \notin DOMAIN posts)
        => resp'.status = 404 /\ Unchanged ]_vars

C3_Witness ==
    /\ IsItem(req, {"PUT"}) /\ ~Incomplete(req.data)
    /\ posts # <<>> /\ req.id \notin DOMAIN posts
    /\ resp.status = 404

C6_BadRequest ==
    [][ ( /\ Incomplete(req'.data)
          /\ \/ req'.path = "posts" /\ req'.method = "POST"
                   /\ req'.user # AnonymousUser
             \/ IsItem(req', {"PUT"}) /\ req'.id \in DOMAIN posts
                   /\ req'.user = posts[req'.id].author )
        => /\ resp'.status = 400
           /\ resp'.errors # {}
           /\ ("title" \in resp'.errors) <=> (req'.data.title = Missing)
           /\ Unchanged ]_vars

C6_Witness ==
    /\ IsItem(req, {"PUT"}) /\ req.id \in DOMAIN posts
    /\ req.user = posts[req.id].author
    /\ req.data.title = Missing /\ req.data.content # Missing
    /\ req.data.content # posts[req.id].content
    /\ resp.status = 400 /\ "title" \in resp.errors

\* C7: GET /list_post/ by an authenticated caller returns 200 with exactly
\* the posts whose author's username is the username parameter when it is
\* present and not empty, and every post otherwise, each once.
C7_ListByAuthor ==
    (req.path = "list_post/" /\ req.user # AnonymousUser)
    => /\ resp.status = 200
       /\ LET want == IF req.username = Missing \/ req.username = ""
                      THEN DOMAIN posts
                      ELSE {i \in DOMAIN posts : posts[i].author = req.username}
          IN  /\ Len(resp.list) = Cardinality(want)
              /\ Elems(resp.list) =
                    {[id |-> i, title |-> posts[i].title,
                      content |-> posts[i].content,
                      author |-> posts[i].author] : i \in want}

C7_Witness ==
    /\ req.path = "list_post/" /\ req.user = "bob" /\ req.username = "alice"
    /\ Cardinality({i \in DOMAIN posts : posts[i].author = "alice"}) = 1
    /\ Cardinality({i \in DOMAIN posts : posts[i].author = "bob"}) = 1
    /\ Len(resp.list) = 1 /\ resp.list[1].author = "alice"

\* C8: POST /posts, GET /current_user/ and GET /list_post/ by an
\* unauthenticated caller are refused with 401 and change nothing; no
\* unauthenticated request adds a post; GET on /homepage, /posts and
\* /posts/{id} is refused for no caller.
C8_Authentication ==
    [][ /\ ( /\ req'.user = AnonymousUser
             /\ \/ req'.path = "posts" /\ req'.method = "POST"
                \/ req'.path \in {"current_user/", "list_post/"} )
            => resp'.status = 401 /\ Unchanged
        /\ req'.user = AnonymousUser => DOMAIN posts' \subseteq DOMAIN posts
        /\ (req'.method = "GET"
                /\ req'.path \in {"homepage", "posts", "posts/<id>"})
            => resp'.status \in {200, 404} ]_vars

C8_Witness ==
    /\ req.path = "posts" /\ req.method = "POST"
    /\ req.user = AnonymousUser /\ ~Incomplete(req.data)
    /\ resp.status = 401 /\ nextId = 1

\* C9: GET on an existing identifier returns 200 with the stored post under
\* that identifier; no GET changes the table; a GET repeated right after
\* itself returns the same response.
C9_GetReadsOnly ==
    [][ req'.method = "GET"
        => /\ Unchanged
           /\ (IsItem(req', {"GET"}) /\ req'.id \in DOMAIN posts)
               => /\ resp'.status = 200
                  /\ resp'.post = [id |-> req'.id,
                                   title |-> posts[req'.id].title,
                                   content |-> posts[req'.id].content,
                                   author |-> posts[req'.id].author]
           /\ req' = req => resp' = resp ]_vars

C9_Witness ==
    /\ IsItem(req, {"GET"}) /\ req.id = 2 /\ resp.status = 200
    /\ resp.post.id = 2 /\ 1 \in DOMAIN posts

\* C10: with a PUT and a DELETE on the same post interleaved, a post that a
\* DELETE removed is never in the table again: a PUT does not re-create it.
C10_NoResurrection ==
    [][ \A id \in 1..(nextId - 1) :
            id \notin DOMAIN posts => id \notin DOMAIN posts' ]_vars

====
